---- MODULE Spec2Model ----
(***************************************************************************)
(* Model of the FRAGMENT video generator: the pipeline orchestrator        *)
(* (app/services/video_service.py), the shared resource directories       *)
(* (app/core/config.py), and the subtitle timing arithmetic               *)
(* (assembly/scripts/assembly_video_refactored.py).                       *)
(***************************************************************************)
EXTENDS Integers, Sequences, FiniteSets, TLC

\* ------------------------------------------------------------------ bounds

\* Submission times are drawn from 0..MaxTime, in half-second ticks.
MaxTime == 2
\* The timing engine is run on at most MaxSegs narration texts / audio clips.
MaxSegs == 2
\* Audio durations are drawn from 1..MaxDur seconds.
MaxDur == 2
\* chunk_size is drawn from 1..MaxChunk.
MaxChunk == 2
\* A folder holds at most MaxFiles entries.
MaxFiles == 3
\* A visual script has at most MaxScenes scenes.
MaxScenes == 2
\* _clean_directory is called at most MaxCleanRuns times on a folder.
MaxCleanRuns == 2
MaxNarration == 12

\* ------------------------------------------------------- program constants

\* clean_topic is cut to its first 30 characters.
TopicLimit == 30
\* settings.DEFAULT_CHUNK_SIZE
DEFAULT_CHUNK_SIZE == 10
\* start_time = 5 in create_complete_srt ("account for intro")
SrtIntroOffset == 5
\* Start_duration = 5 in create_video
VideoIntroOffset == 5
\* chunk_size = 10, hard-coded in create_video
VideoChunkSize == 10

\* ------------------------------------------------------------ text helpers

Letters == {"a", "b", "c", "d", "e", "x", "y"}
DigitChars == <<"0", "1", "2", "3", "4", "5", "6", "7", "8", "9">>
Whitespace == {" "}

\* [A-Za-z0-9], restricted to the characters the model uses
IsAlnum(c) == c \in Letters \/ \E i \in 1..10 : DigitChars[i] = c

RECURSIVE Repeat(_, _)
Repeat(c, n) == IF n = 0 THEN <<>> ELSE <<c>> \o Repeat(c, n - 1)

\* s[:n]
Prefix(s, n) == SubSeq(s, 1, IF Len(s) < n THEN Len(s) ELSE n)

\* str(n) for n >= 0
RECURSIVE Decimal(_)
Decimal(n) == IF n < 10 THEN <<DigitChars[n + 1]>>
              ELSE Decimal(n \div 10) \o <<DigitChars[(n % 10) + 1]>>

\* re.sub(r"[^A-Za-z0-9]", "_", topic)[:30]
CleanTopic(t) ==
    Prefix([i \in 1..Len(t) |-> IF IsAlnum(t[i]) THEN t[i] ELSE "_"], TopicLimit)

\* int(time.time()) for a clock reading in half-second ticks
Timestamp(now) == now \div 2

\* f"{clean_topic}_{timestamp}.mp4" for a submission of `t` at clock reading `now`
GenerateVideoFilename(t, now) ==
    CleanTopic(t) \o <<"_">> \o Decimal(Timestamp(now)) \o <<".", "m", "p", "4">>

\* ------------------------------------------------------------ exact times

\* A time or duration is an exact fraction <<n, d>> of seconds in lowest
\* terms (Python computes with floats; rounding error is left out).
RECURSIVE Gcd(_, _)
Gcd(a, b) == IF b = 0 THEN a ELSE Gcd(b, a % b)

Rat(n, d) == LET g == Gcd(n, d) IN IF g = 0 THEN <<0, 1>> ELSE <<n \div g, d \div g>>
RatInt(n) == <<n, 1>>
RatAdd(p, q) == Rat(p[1] * q[2] + q[1] * p[2], p[2] * q[2])
RatMul(p, q) == Rat(p[1] * q[1], p[2] * q[2])
RatLeq(p, q) == p[1] * q[2] <= q[1] * p[2]

\* ------------------------------------------------- words of a narration text

\* str.split(): the maximal runs of non-whitespace characters, in order
RECURSIVE SplitFrom(_, _, _, _)
SplitFrom(s, i, cur, acc) ==
    IF i > Len(s) THEN (IF cur = <<>> THEN acc ELSE Append(acc, cur))
    ELSE IF s[i] \in Whitespace
         THEN SplitFrom(s, i + 1, <<>>, IF cur = <<>> THEN acc ELSE Append(acc, cur))
         ELSE SplitFrom(s, i + 1, Append(cur, s[i]), acc)

Split(s) == SplitFrom(s, 1, <<>>, <<>>)

\* " ".join(words)
RECURSIVE Join(_)
Join(words) ==
    IF words = <<>> THEN <<>>
    ELSE IF Len(words) = 1 THEN words[1]
    ELSE words[1] \o <<" ">> \o Join(Tail(words))

Min(a, b) == IF a < b THEN a ELSE b

\* q[-1]
Last(q) == q[Len(q)]

\* ------------------------------------------- create_complete_srt: the cues

\* chunk_duration = duration * (len(chunk.split()) / len(words)), and a
\* mutant with an integer division
SrtChunkDurationIntDiv(duration, wc, W) == RatMul(duration, RatInt(wc \div W))

SrtChunkDuration(duration, wc, W) == RatMul(duration, Rat(wc, W))

\* end_time = start_time + chunk_duration, and a mutant that forgets the clock
SrtEndTimeNoClock(start_time, chunk_duration) == chunk_duration

SrtEndTime(start_time, chunk_duration) == RatAdd(start_time, chunk_duration)

\* for i in range(0, len(words), chunk_size): one SubRipItem per chunk
\* (i is the 0-based index of the chunk's first word)
RECURSIVE SrtChunkCues(_, _, _, _, _)
SrtChunkCues(words, duration, chunk_size, start_time, i) ==
    IF i >= Len(words) THEN <<>>
    ELSE LET chunk == Join(SubSeq(words, i + 1, Min(i + chunk_size, Len(words))))
             chunk_duration == SrtChunkDuration(duration, Len(Split(chunk)), Len(words))
             end_time == SrtEndTime(start_time, chunk_duration)
         IN  <<[text |-> chunk, start |-> start_time, end |-> end_time]>>
             \o SrtChunkCues(words, duration, chunk_size, end_time, i + chunk_size)

\* a mutant that also chunks a text of exactly chunk_size words
SrtSegmentCuesChunkAtLimit(text, duration, chunk_size, start_time) ==
    LET words == Split(text)
    IN  IF Len(words) >= chunk_size /\ words # <<>>
        THEN SrtChunkCues(words, duration, chunk_size, start_time, 0)
        ELSE <<[text |-> text, start |-> start_time,
                end |-> SrtEndTime(start_time, duration)]>>

\* the body of the loop over zip(script, audio_clips): the cues of one segment
SrtSegmentCues(text, duration, chunk_size, start_time) ==
    LET words == Split(text)
    IN  IF Len(words) > chunk_size
        THEN SrtChunkCues(words, duration, chunk_size, start_time, 0)
        ELSE <<[text |-> text, start |-> start_time,
                end |-> SrtEndTime(start_time, duration)]>>

\* the loop over zip(script, audio_clips), from segment k on
RECURSIVE SrtCuesFrom(_, _, _, _, _)
SrtCuesFrom(script, durations, chunk_size, start_time, k) ==
    IF k > Min(Len(script), Len(durations)) THEN <<>>
    ELSE LET cues == SrtSegmentCues(script[k], durations[k], chunk_size, start_time)
         IN  cues \o SrtCuesFrom(script, durations, chunk_size,
                                 cues[Len(cues)].end, k + 1)

\* the SubRipFile create_complete_srt saves for the texts `script` and the
\* clip durations `durations`
CreateCompleteSrtCues(script, durations, chunk_size) ==
    SrtCuesFrom(script, durations, chunk_size, RatInt(SrtIntroOffset), 1)

\* create_complete_srt with every file readable and writable: the cues are
\* saved and True is returned, whatever the two lengths
CreateCompleteSrt(script, durations, chunk_size) ==
    [ok |-> TRUE, cues |-> CreateCompleteSrtCues(script, durations, chunk_size)]

\* ------------------------------------- create_video: the burned-in captions

\* chunk_duration = duration * (len(chunk.split()) / len(words))
VideoChunkDuration(duration, wc, W) == RatMul(duration, Rat(wc, W))

RECURSIVE VideoChunkCues(_, _, _, _)
VideoChunkCues(words, duration, Start_duration, i) ==
    IF i >= Len(words) THEN <<>>
    ELSE LET chunk == Join(SubSeq(words, i + 1, Min(i + VideoChunkSize, Len(words))))
             chunk_duration == VideoChunkDuration(duration, Len(Split(chunk)), Len(words))
         IN  <<[text |-> chunk, start |-> Start_duration,
                end |-> RatAdd(Start_duration, chunk_duration)]>>
             \o VideoChunkCues(words, duration,
                               RatAdd(Start_duration, chunk_duration), i + VideoChunkSize)

VideoSegmentCues(text, duration, Start_duration) ==
    LET words == Split(text)
    IN  IF Len(words) > VideoChunkSize
        THEN VideoChunkCues(words, duration, Start_duration, 0)
        ELSE <<[text |-> text, start |-> Start_duration,
                end |-> RatAdd(Start_duration, duration)]>>

RECURSIVE VideoCuesFrom(_, _, _, _)
VideoCuesFrom(subtitles, audio_durations, Start_duration, k) ==
    IF k > Min(Len(subtitles), Len(audio_durations)) THEN <<>>
    ELSE LET cues == VideoSegmentCues(subtitles[k], audio_durations[k], Start_duration)
         IN  cues \o VideoCuesFrom(subtitles, audio_durations,
                                   cues[Len(cues)].end, k + 1)

\* the number of (image, audio) pairs of zip(images, audio_files): with no
\* entry in the image folder one placeholder is repeated for every audio file
PairedCount(n_images, n_audio) ==
    IF n_images = 0 THEN n_audio ELSE Min(n_images, n_audio)

\* the subtitle clips create_video overlays when with_subtitles is set:
\* audio_durations holds one duration per (image, audio) pair
CreateVideoCues(subtitles, n_images, durations) ==
    VideoCuesFrom(subtitles,
                  SubSeq(durations, 1, PairedCount(n_images, Len(durations))),
                  RatInt(VideoIntroOffset), 1)

\* ---------------------------------------------------------------- inputs

Jobs == {"A", "B"}

\* request.topic as the pipeline sees it: one topic with a character that is
\* replaced, one that is longer than the limit
Topics == {<<"a", " ">>, Repeat("a", TopicLimit) \o <<"x">>}

\* narration texts: 0, 1, 2, 3 and 5 words, with stray whitespace
Texts == {<<>>,
          <<"a">>,
          <<" ", "a", " ", " ", "b">>,
          <<"a", " ", "b", " ", "c", " ">>,
          <<"a", " ", "b", " ", "c", " ", "d", " ", "e">>}

\* the scripts the external generator returns: narration texts (audio_script)
\* and the timestamp_start labels <<minutes, seconds>> of the visual cues
Scripts == {[audio_script |-> <<<<"a", " ", "b">>, <<"c">>>>,
             visual_script |-> <<<<0, 0>>>>],
            [audio_script |-> <<<<"d">>>>,
             visual_script |-> <<<<0, 0>>>>]}

Durations == 1..MaxDur

\* a folder or file store: a function from the names present to contents
EmptyDir == <<>>
Put(dir, name, content) == (name :> content) @@ dir

\* ---------------------------------------------------------------- state

VARIABLES
    pc,             \* job -> where _generate_video_task (or its caller) is
    topic,          \* job -> request.topic (<<>> before submission)
    video_filename, \* job -> the filename allocated by generate_video_async
    response,       \* job -> the VideoGenerationResponse returned, or <<>>
    clock,          \* time.time() at the latest submission, in half seconds
                    \* counted from the first submission
    ran,            \* job -> the stages started so far, in order (history)
    raised,         \* job -> the stage whose call raised, or "none" (history)
    swallowed,      \* job -> the stages whose failure was not raised (history)
    copying,        \* job -> shutil.copy has opened the destination
    script_json,    \* settings.SCRIPT_DIR: "script.json" -> [by, script]
    images_dir,     \* settings.IMAGES_DIR: cue label -> [by, cue]
    audio_dir,      \* settings.AUDIO_DIR: segment index -> [by, seg, dur]
    subtitles_dir,  \* settings.SUBTITLE_OUTPUT_DIR: clean topic -> [by, cues]
    video_dir,      \* settings.VIDEO_OUTPUT_DIR: filename -> video
    static_videos,  \* settings.STATIC_DIR / "videos": filename -> [video, complete]
    deleted,        \* job -> the running jobs whose artifacts its cleaning
                    \* removed (history)
    overwrote,      \* job -> the running jobs whose files it wrote over (history)
    tm_script,      \* timing engine input: the narration texts
    tm_durations,   \* timing engine input: the audio clip durations
    tm_chunk,       \* timing engine input: chunk_size
    tm_images,      \* timing engine input: the number of image files
    tm_ran,         \* which of "srt", "video" have been computed
    tm_srt,         \* what create_complete_srt returned and saved
    tm_video,       \* the subtitle clips create_video overlaid
    tm_clips,       \* the (image, audio) clips create_video put on the timeline
    tm_timeline,    \* the concatenated video: every clip with its start and end
    fl_listing,     \* get_files input: the folder as iterdir() lists it
    fl_relisting,   \* the same folder as another iterdir() call lists it
    fl_exts,        \* get_files input: the extensions asked for
    fl_out,         \* [ran, files, refiles]: what get_files returned for both
    ig_script,      \* main_generate_images input: data["visual_script"]
    ig_outcomes,    \* what the image API and the download do for each scene
    ig_out,         \* [ran, ...]: what main_generate_images did and returned
    na_script,      \* main_generate_audio input: data["audio_script"]
    na_fails,       \* the segments for which the speech pipeline raises
    na_out,         \* [ran, ...]: what main_generate_audio did and returned
    cl_folder,      \* _clean_directory input: the folder, or Absent
    cl_log          \* the folder after each _clean_directory call (history)

jobVars == <<pc, topic, video_filename, response, clock, ran, raised, swallowed,
             copying, deleted, overwrote>>
fsVars == <<script_json, images_dir, audio_dir, subtitles_dir, video_dir,
            static_videos>>
pipeVars == <<jobVars, fsVars>>
tmVars == <<tm_script, tm_durations, tm_chunk, tm_images, tm_ran, tm_srt, tm_video,
           tm_clips, tm_timeline>>
flVars == <<fl_listing, fl_relisting, fl_exts, fl_out>>
igVars == <<ig_script, ig_outcomes, ig_out>>
naVars == <<na_script, na_fails, na_out>>
clVars == <<cl_folder, cl_log>>
\* the inputs and results of the routines that are run on their own
fnVars == <<tmVars, flVars, igVars, naVars, clVars>>
vars == <<pipeVars, fnVars>>

StageSet == {"CLEANING", "SCRIPTING", "IMAGING", "NARRATING", "TIMING",
             "ASSEMBLING", "PUBLISHING"}

\* ------------------------------------------------- _generate_video_task

\* the statement order of the try block (steps 1 to 7), and a mutant that
\* generates the audio before the images
NextStageAudioFirst(s) ==
    CASE s = "PENDING" -> "CLEANING"
      [] s = "CLEANING" -> "SCRIPTING"
      [] s = "SCRIPTING" -> "NARRATING"
      [] s = "NARRATING" -> "IMAGING"
      [] s = "IMAGING" -> "TIMING"
      [] s = "TIMING" -> "ASSEMBLING"
      [] s = "ASSEMBLING" -> "PUBLISHING"
      [] s = "PUBLISHING" -> "DONE"

\* a mutant that reports completion without the copy of step 7
NextStageSkipPublish(s) ==
    CASE s = "PENDING" -> "CLEANING"
      [] s = "CLEANING" -> "SCRIPTING"
      [] s = "SCRIPTING" -> "IMAGING"
      [] s = "IMAGING" -> "NARRATING"
      [] s = "NARRATING" -> "TIMING"
      [] s = "TIMING" -> "ASSEMBLING"
      [] s = "ASSEMBLING" -> "DONE"
      [] s = "PUBLISHING" -> "DONE"

\* a mutant in which the video encoder never returns
NextStageHangs(s) ==
    CASE s = "PENDING" -> "CLEANING"
      [] s = "CLEANING" -> "SCRIPTING"
      [] s = "SCRIPTING" -> "IMAGING"
      [] s = "IMAGING" -> "NARRATING"
      [] s = "NARRATING" -> "TIMING"
      [] s = "TIMING" -> "ASSEMBLING"
      [] s = "ASSEMBLING" -> "ENCODING"
      [] s = "PUBLISHING" -> "DONE"

NextStage(s) ==
    CASE s = "PENDING" -> "CLEANING"
      [] s = "CLEANING" -> "SCRIPTING"
      [] s = "SCRIPTING" -> "IMAGING"
      [] s = "IMAGING" -> "NARRATING"
      [] s = "NARRATING" -> "TIMING"
      [] s = "TIMING" -> "ASSEMBLING"
      [] s = "ASSEMBLING" -> "PUBLISHING"
      [] s = "PUBLISHING" -> "DONE"

\* except Exception: log and re-raise, which ends the background task; and a
\* mutant that logs and carries on with the next step
OnExceptionContinue(s) == NextStage(s)

OnException(s) == "FAILED"

Goto(j, s) ==
    /\ pc' = [pc EXCEPT ![j] = s]
    /\ ran' = [ran EXCEPT ![j] = IF s \in StageSet THEN Append(@, s) ELSE @]

Advance(j) == Goto(j, NextStage(pc[j]))

Raise(j) ==
    /\ Goto(j, OnException(pc[j]))
    /\ raised' = [raised EXCEPT ![j] = pc[j]]

\* the entries of a folder, by increasing key
RECURSIVE SortedKeys(_)
SortedKeys(S) ==
    IF S = {} THEN <<>>
    ELSE LET m == CHOOSE x \in S : \A y \in S : x <= y
         IN  <<m>> \o SortedKeys(S \ {m})

\* get_files(audio_folder): segment_<n>.wav sorts by int(n)
AudioFiles(dir) ==
    LET keys == SortedKeys(DOMAIN dir) IN [i \in 1..Len(keys) |-> dir[keys[i]]]

\* extract_number of scene_<mm>-<ss>.jpg: int of the text between "_" and "-"
SceneNumber(label) == label[1]

\* the orders get_files(image_folder) can return: sorted() is stable, so files
\* with equal numbers stay in the order iterdir() listed them, which is any
ImageOrders(dir) ==
    {o \in [1..Cardinality(DOMAIN dir) -> DOMAIN dir] :
        /\ \A a, b \in DOMAIN o : a # b => o[a] # o[b]
        /\ \A a, b \in DOMAIN o : a < b => SceneNumber(o[a]) <= SceneNumber(o[b])}

\* main_generate_images: the loop over enumerate(data["visual_script"]), from
\* cue idx on; ok holds the cues whose generation and download succeed
RECURSIVE WriteImages(_, _, _, _, _)
WriteImages(dir, j, cues, ok, idx) ==
    IF idx > Len(cues) THEN dir
    ELSE WriteImages(IF idx \in ok THEN Put(dir, cues[idx], [by |-> j, cue |-> idx])
                     ELSE dir,
                     j, cues, ok, idx + 1)

\* merge_audio: segment_<idx>.wav for every entry of audio_bytes_list
RECURSIVE WriteAudio(_, _, _, _)
WriteAudio(dir, j, durs, idx) ==
    IF idx > Len(durs) THEN dir
    ELSE WriteAudio(Put(dir, idx - 1, [by |-> j, seg |-> idx, dur |-> durs[idx]]),
                    j, durs, idx + 1)

\* the length in seconds of the clip the synthesizer returns for a text: one
\* second per word (the pipeline model fixes what the external voice decides)
SpeechSeconds(text) == Len(Split(text))

\* the other jobs, still in a pipeline stage, that own an entry of `dir`
\* with one of the names `names`
Running(k) == pc[k] \in StageSet
Victims(dir, names, j) ==
    {k \in Jobs \ {j} : Running(k) /\ \E n \in names \cap DOMAIN dir : dir[n].by = k}

JobsBefore(j) == IF j = "A" THEN {} ELSE {"A"}

\* generate_video_async: allocate the filename, queue the task, answer
Submit(j, t, now) ==
    /\ pc[j] = "IDLE"
    /\ \A k \in JobsBefore(j) : pc[k] # "IDLE"
    /\ IF JobsBefore(j) = {} THEN now = 0 ELSE now >= clock
    /\ clock' = now
    /\ topic' = [topic EXCEPT ![j] = t]
    /\ video_filename' = [video_filename EXCEPT ![j] = GenerateVideoFilename(t, now)]
    /\ response' = [response EXCEPT ![j] =
                       [success |-> TRUE,
                        video_filename |-> GenerateVideoFilename(t, now)]]
    /\ pc' = [pc EXCEPT ![j] = "PENDING"]
    /\ UNCHANGED <<ran, raised, swallowed, copying, deleted, overwrote, fsVars, fnVars>>

\* the background task starts
StartTask(j) ==
    /\ pc[j] = "PENDING"
    /\ Advance(j)
    /\ UNCHANGED <<topic, video_filename, response, clock, raised, swallowed,
                   copying, deleted, overwrote, fsVars, fnVars>>

\* a mutant of step 1 that also empties the publish directory
CleaningWipesPublish(j) ==
    /\ pc[j] = "CLEANING"
    /\ images_dir' = EmptyDir
    /\ audio_dir' = EmptyDir
    /\ static_videos' = EmptyDir
    /\ deleted' = [deleted EXCEPT ![j] =
                      @ \cup Victims(images_dir, DOMAIN images_dir, j)
                        \cup Victims(audio_dir, DOMAIN audio_dir, j)]
    /\ Advance(j)
    /\ UNCHANGED <<topic, video_filename, response, clock, raised, swallowed,
                   copying, overwrote, script_json, subtitles_dir, video_dir, fnVars>>

\* the entries of `dir` that are left when only those named in `names` stay
Keep(dir, names) ==
    IF names \cap DOMAIN dir = {} THEN EmptyDir
    ELSE [n \in names \cap DOMAIN dir |-> dir[n]]

\* step 1: _clean_directory(IMAGES_DIR); _clean_directory(AUDIO_DIR). Every
\* entry is deleted except those whose deletion raises: the exception is
\* logged as a warning inside the loop, the entry stays and the task goes on
Cleaning(j) ==
    /\ pc[j] = "CLEANING"
    /\ \E stuck_images \in SUBSET DOMAIN images_dir,
          stuck_audio \in SUBSET DOMAIN audio_dir :
          /\ images_dir' = Keep(images_dir, stuck_images)
          /\ audio_dir' = Keep(audio_dir, stuck_audio)
          /\ deleted' = [deleted EXCEPT ![j] =
                            @ \cup Victims(images_dir, DOMAIN images_dir \ stuck_images, j)
                              \cup Victims(audio_dir, DOMAIN audio_dir \ stuck_audio, j)]
    /\ Advance(j)
    /\ UNCHANGED <<topic, video_filename, response, clock, raised, swallowed,
                   copying, overwrote, script_json, subtitles_dir, video_dir, static_videos,
                   fnVars>>

\* a mutant of step 2 that keeps the script in memory only
ScriptingNoSave(j, s) ==
    /\ pc[j] = "SCRIPTING"
    /\ Advance(j)
    /\ UNCHANGED <<topic, video_filename, response, clock, raised, swallowed,
                   copying, deleted, overwrote, fsVars, fnVars>>

\* step 2: generate_script, then save_script to SCRIPT_DIR / "script.json"
Scripting(j, s) ==
    /\ pc[j] = "SCRIPTING"
    /\ script_json' = Put(script_json, "script.json", [by |-> j, script |-> s])
    /\ overwrote' = [overwrote EXCEPT ![j] =
                        @ \cup Victims(script_json, {"script.json"}, j)]
    /\ Advance(j)
    /\ UNCHANGED <<topic, video_filename, response, clock, raised, swallowed,
                   copying, deleted, images_dir, audio_dir, subtitles_dir,
                   video_dir, static_videos, fnVars>>

\* the script generator fails
ScriptingFails(j) ==
    /\ pc[j] = "SCRIPTING"
    /\ Raise(j)
    /\ UNCHANGED <<topic, video_filename, response, clock, swallowed, copying,
                   deleted, overwrote, fsVars, fnVars>>

\* step 3: main_generate_images reads the script file; its result is dropped
Imaging(j, ok) ==
    /\ pc[j] = "IMAGING"
    /\ LET cues == script_json["script.json"].script.visual_script
       IN  /\ ok \subseteq 1..Len(cues)
           /\ images_dir' = WriteImages(images_dir, j, cues, ok, 1)
           /\ overwrote' = [overwrote EXCEPT ![j] =
                               @ \cup Victims(images_dir, {cues[i] : i \in ok}, j)]
           /\ swallowed' = [swallowed EXCEPT ![j] =
                               IF ok = {} THEN @ \cup {"IMAGING"} ELSE @]
    /\ Advance(j)
    /\ UNCHANGED <<topic, video_filename, response, clock, raised, copying,
                   deleted, script_json, audio_dir, subtitles_dir, video_dir,
                   static_videos, fnVars>>

\* step 4: main_generate_audio reads the script file and writes every segment
Narrating(j) ==
    /\ pc[j] = "NARRATING"
    /\ LET texts == script_json["script.json"].script.audio_script
       IN  /\ audio_dir' = WriteAudio(audio_dir, j,
                                      [i \in 1..Len(texts) |-> SpeechSeconds(texts[i])], 1)
           /\ overwrote' = [overwrote EXCEPT ![j] =
                               @ \cup Victims(audio_dir, 0..(Len(texts) - 1), j)]
    /\ Advance(j)
    /\ UNCHANGED <<topic, video_filename, response, clock, raised, swallowed,
                   copying, deleted, script_json, images_dir, subtitles_dir,
                   video_dir, static_videos, fnVars>>

\* a speech synthesis call raises: nothing is written
NarratingFails(j) ==
    /\ pc[j] = "NARRATING"
    /\ Raise(j)
    /\ UNCHANGED <<topic, video_filename, response, clock, swallowed, copying,
                   deleted, overwrote, fsVars, fnVars>>

\* step 5: create_complete_srt saves SUBTITLE_OUTPUT_DIR / f"{clean_topic}.srt"
Timing(j) ==
    /\ pc[j] = "TIMING"
    /\ LET texts == script_json["script.json"].script.audio_script
           clips == AudioFiles(audio_dir)
           durs == [i \in 1..Len(clips) |-> RatInt(clips[i].dur)]
       IN  subtitles_dir' =
               Put(subtitles_dir, CleanTopic(topic[j]),
                   [by |-> j,
                    cues |-> CreateCompleteSrt(texts, durs, DEFAULT_CHUNK_SIZE).cues])
    /\ Advance(j)
    /\ UNCHANGED <<topic, video_filename, response, clock, raised, swallowed,
                   copying, deleted, overwrote, script_json, images_dir, audio_dir,
                   video_dir, static_videos, fnVars>>

\* step 5, an exception inside create_complete_srt: it prints, returns False,
\* and the caller does not look at the result
TimingSwallowed(j) ==
    /\ pc[j] = "TIMING"
    /\ swallowed' = [swallowed EXCEPT ![j] = @ \cup {"TIMING"}]
    /\ Advance(j)
    /\ UNCHANGED <<topic, video_filename, response, clock, raised, copying,
                   deleted, overwrote, fsVars, fnVars>>

\* step 6: create_video pairs zip(images, audio_files) and writes the video to
\* VIDEO_OUTPUT_DIR / video_filename
Assembling(j, order) ==
    /\ pc[j] = "ASSEMBLING"
    /\ order \in ImageOrders(images_dir)
    /\ LET audio_files == AudioFiles(audio_dir)
           images == IF DOMAIN images_dir = {}
                     THEN [i \in 1..Len(audio_files) |-> [by |-> j, cue |-> 0]]
                     ELSE [i \in 1..Len(order) |-> images_dir[order[i]]]
           n == Min(Len(images), Len(audio_files))
       IN  video_dir' = Put(video_dir, video_filename[j],
                            [by |-> j,
                             clips |-> [i \in 1..n |->
                                           [image |-> images[i],
                                            audio |-> audio_files[i]]]])
    /\ Advance(j)
    /\ UNCHANGED <<topic, video_filename, response, clock, raised, swallowed,
                   copying, deleted, overwrote, script_json, images_dir, audio_dir,
                   subtitles_dir, static_videos, fnVars>>

\* decoding or encoding raises
AssemblingFails(j) ==
    /\ pc[j] = "ASSEMBLING"
    /\ Raise(j)
    /\ UNCHANGED <<topic, video_filename, response, clock, swallowed, copying,
                   deleted, overwrote, fsVars, fnVars>>

\* step 7: shutil.copy opens the destination and starts writing
PublishBegin(j) ==
    /\ pc[j] = "PUBLISHING"
    /\ ~copying[j]
    /\ copying' = [copying EXCEPT ![j] = TRUE]
    /\ static_videos' = Put(static_videos, video_filename[j],
                            [video |-> video_dir[video_filename[j]],
                             complete |-> FALSE])
    /\ UNCHANGED <<pc, ran, topic, video_filename, response, clock, raised,
                   swallowed, deleted, overwrote, script_json, images_dir, audio_dir,
                   subtitles_dir, video_dir, fnVars>>

\* a mutant of step 7 that publishes under f"{clean_topic}.mp4"
PublishEndRenamed(j) ==
    /\ pc[j] = "PUBLISHING"
    /\ copying[j]
    /\ copying' = [copying EXCEPT ![j] = FALSE]
    /\ static_videos' = Put(static_videos, CleanTopic(topic[j]) \o <<".", "m", "p", "4">>,
                            [video |-> video_dir[video_filename[j]],
                             complete |-> TRUE])
    /\ Advance(j)
    /\ UNCHANGED <<topic, video_filename, response, clock, raised, swallowed,
                   deleted, overwrote, script_json, images_dir, audio_dir, subtitles_dir,
                   video_dir, fnVars>>

\* step 7: shutil.copy has written the last byte
PublishEnd(j) ==
    /\ pc[j] = "PUBLISHING"
    /\ copying[j]
    /\ copying' = [copying EXCEPT ![j] = FALSE]
    /\ static_videos' = Put(static_videos, video_filename[j],
                            [video |-> video_dir[video_filename[j]],
                             complete |-> TRUE])
    /\ Advance(j)
    /\ UNCHANGED <<topic, video_filename, response, clock, raised, swallowed,
                   deleted, overwrote, script_json, images_dir, audio_dir, subtitles_dir,
                   video_dir, fnVars>>

\* step 7: mkdir or shutil.copy raises; what was written stays
PublishFails(j) ==
    /\ pc[j] = "PUBLISHING"
    /\ copying' = [copying EXCEPT ![j] = FALSE]
    /\ Raise(j)
    /\ UNCHANGED <<topic, video_filename, response, clock, swallowed, deleted, overwrote,
                   fsVars, fnVars>>

\* list_videos: the names in STATIC_DIR / "videos" (all end in .mp4)
ListVideos == DOMAIN static_videos

\* download_video: the file served for a name, or a 404
DownloadVideo(name) ==
    IF name \in DOMAIN static_videos
    THEN [status |-> 200, file |-> static_videos[name]]
    ELSE [status |-> 404, file |-> <<>>]

\* ------------------------------------------ create_video: the narration clips

\* the image every clip shows when the image folder has no entry
Placeholder == 0

\* images: a mutant that lists the folder even when it is empty, and the code:
\* [placeholder_image] * len(audio_files) when the folder has no entry, else
\* get_files(image_folder) (image i is the i-th file of that list)
VideoImagesNoPlaceholder(n_images, n_audio) == [i \in 1..n_images |-> i]

VideoImages(n_images, n_audio) ==
    IF n_images = 0 THEN [i \in 1..n_audio |-> Placeholder]
    ELSE [i \in 1..n_images |-> i]

\* for img, audio in zip(images, audio_files): one clip per pair; and a mutant
\* that makes a clip for every audio file
VideoClipsPerAudio(images, n_audio) ==
    [i \in 1..n_audio |->
        [image |-> IF i <= Len(images) THEN images[i] ELSE Placeholder, audio |-> i]]

VideoClips(images, n_audio) ==
    [i \in 1..Min(Len(images), n_audio) |-> [image |-> images[i], audio |-> i]]

\* the raw clips between intro and outro for n_images image files and
\* n_audio audio files
CreateVideoClips(n_images, n_audio) ==
    VideoClips(VideoImages(n_images, n_audio), n_audio)

\* create_intro_clip(..., duration=5, ...) for the title card and the credits
IntroDuration == 5
OutroDuration == 5

\* raw_clips: a mutant without the credits, and the code: the title card, the
\* narration clips, each with_duration(audio_clip.duration), and the credits
RawClipsNoOutro(n_images, durations) ==
    LET clips == CreateVideoClips(n_images, Len(durations))
    IN  <<[kind |-> "intro", image |-> 0, audio |-> 0,
           duration |-> RatInt(IntroDuration)]>>
        \o [i \in 1..Len(clips) |->
               [kind |-> "clip", image |-> clips[i].image, audio |-> clips[i].audio,
                duration |-> durations[clips[i].audio]]]

RawClips(n_images, durations) ==
    LET clips == CreateVideoClips(n_images, Len(durations))
    IN  <<[kind |-> "intro", image |-> 0, audio |-> 0,
           duration |-> RatInt(IntroDuration)]>>
        \o [i \in 1..Len(clips) |->
               [kind |-> "clip", image |-> clips[i].image, audio |-> clips[i].audio,
                duration |-> durations[clips[i].audio]]]
        \o <<[kind |-> "outro", image |-> 0, audio |-> 0,
              duration |-> RatInt(OutroDuration)]>>

\* concatenate_videoclips(raw_clips, method="compose"): the clips one after
\* the other, the first at `start`
RECURSIVE Concatenate(_, _)
Concatenate(raw_clips, start) ==
    IF raw_clips = <<>> THEN <<>>
    ELSE LET c == raw_clips[1]
             end == RatAdd(start, c.duration)
         IN  <<[kind |-> c.kind, image |-> c.image, audio |-> c.audio,
                start |-> start, end |-> end]>>
             \o Concatenate(Tail(raw_clips), end)

\* the video create_video writes for n_images image files and the audio
\* files of the given durations
CreateVideoTimeline(n_images, durations) ==
    Concatenate(RawClips(n_images, durations), RatInt(0))

\* ---------------------------------------------------------------- get_files

\* file names are sequences of characters
SegmentPrefix == <<"s", "e", "g", "m", "e", "n", "t", "_">>
ScenePrefix == <<"s", "c", "e", "n", "e", "_">>
DotWav == <<".", "w", "a", "v">>
DotMp3 == <<".", "m", "p", "3">>
DotJpg == <<".", "j", "p", "g">>
DotPng == <<".", "p", "n", "g">>
DotJpeg == <<".", "j", "p", "e", "g">>

\* the extensions create_video and create_complete_srt ask for
AudioExtensions == {DotMp3, DotWav}
ImageExtensions == {DotJpg, DotPng, DotJpeg}

\* str.lower(), on the characters the model uses
LowerChar(c) ==
    CASE c = "W" -> "w" [] c = "A" -> "a" [] c = "V" -> "v" [] OTHER -> c

Lower(s) == [i \in 1..Len(s) |-> LowerChar(s[i])]

\* name.rfind("."), 1-based, 0 when there is no dot
RECURSIVE LastDot(_, _)
LastDot(name, i) ==
    IF i = 0 THEN 0 ELSE IF name[i] = "." THEN i ELSE LastDot(name, i - 1)

\* PurePath.suffix: from the last dot on, unless the dot leads or ends the name
Suffix(name) ==
    LET i == LastDot(name, Len(name))
    IN  IF 1 < i /\ i < Len(name) THEN SubSeq(name, i, Len(name)) ELSE <<>>

\* PurePath.stem
Stem(name) == SubSeq(name, 1, Len(name) - Len(Suffix(name)))

\* str.startswith
StartsWith(s, p) == Len(s) >= Len(p) /\ SubSeq(s, 1, Len(p)) = p

\* str.split(sep) for a one-character separator: every part, empty ones too
RECURSIVE SplitOnFrom(_, _, _, _, _)
SplitOnFrom(s, sep, i, cur, acc) ==
    IF i > Len(s) THEN Append(acc, cur)
    ELSE IF s[i] = sep
         THEN SplitOnFrom(s, sep, i + 1, <<>>, Append(acc, cur))
         ELSE SplitOnFrom(s, sep, i + 1, Append(cur, s[i]), acc)

SplitOn(s, sep) == SplitOnFrom(s, sep, 1, <<>>, <<>>)

IsDigit(c) == \E i \in 1..10 : DigitChars[i] = c
DigitValue(c) == (CHOOSE i \in 1..10 : DigitChars[i] = c) - 1

\* re.findall(r"\d+", base): the maximal runs of digits, in order
RECURSIVE DigitRunsFrom(_, _, _, _)
DigitRunsFrom(s, i, cur, acc) ==
    IF i > Len(s) THEN (IF cur = <<>> THEN acc ELSE Append(acc, cur))
    ELSE IF IsDigit(s[i])
         THEN DigitRunsFrom(s, i + 1, Append(cur, s[i]), acc)
         ELSE DigitRunsFrom(s, i + 1, <<>>, IF cur = <<>> THEN acc ELSE Append(acc, cur))

DigitRuns(s) == DigitRunsFrom(s, 1, <<>>, <<>>)

\* a mutant that reads the digits the way strings compare: left-aligned
RECURSIVE DigitsValueAsText(_)
DigitsValueAsText(ds) ==
    IF ds = <<>> THEN 0
    ELSE DigitValue(ds[1]) * 100 + DigitsValueAsText(Tail(ds)) \div 10

\* the value of a string of decimal digits
RECURSIVE DigitsValue(_)
DigitsValue(ds) ==
    IF ds = <<>> THEN 0
    ELSE 10 * DigitsValue(SubSeq(ds, 1, Len(ds) - 1)) + DigitValue(ds[Len(ds)])

\* a mutant of int(text) that reads the last digit only
PyIntLastDigit(text) ==
    IF text # <<>> /\ \A i \in 1..Len(text) : IsDigit(text[i])
    THEN [ok |-> TRUE, value |-> DigitValue(text[Len(text)])]
    ELSE [ok |-> FALSE, value |-> 0]

\* int(text): [ok, value]; ok is FALSE where Python raises ValueError.
\* An optional "-" and then digits only.
PyInt(text) ==
    LET neg == text # <<>> /\ text[1] = "-"
        ds == IF neg THEN Tail(text) ELSE text
    IN  IF ds # <<>> /\ \A i \in 1..Len(ds) : IsDigit(ds[i])
        THEN [ok |-> TRUE, value |-> IF neg THEN 0 - DigitsValue(ds) ELSE DigitsValue(ds)]
        ELSE [ok |-> FALSE, value |-> 0]

\* sort keys: <<0, n>> is the integer n, <<1, 0>> is float("inf")
Infinity == <<1, 0>>
KeyLeq(a, b) == a[1] < b[1] \/ (a[1] = b[1] /\ a[2] <= b[2])

\* extract_number(filepath), the sort key of get_files
ExtractNumber(name) ==
    LET base == Stem(name)
        number_part ==
            IF StartsWith(base, SegmentPrefix) THEN SplitOn(base, "_")[2]
            ELSE IF StartsWith(base, ScenePrefix)
                 THEN SplitOn(SplitOn(base, "_")[2], "-")[1]
                 ELSE LET numbers == DigitRuns(base)
                      IN  IF numbers # <<>> THEN numbers[1] ELSE <<"0">>
        n == PyInt(number_part)
    IN  IF n.ok THEN <<0, n.value>> ELSE Infinity

\* sorted(files, key=extract_number) is stable: a file goes behind every file
\* already placed whose key is not larger
RECURSIVE InsertByKey(_, _)
InsertByKey(placed, f) ==
    IF placed = <<>> THEN <<f>>
    ELSE IF KeyLeq(ExtractNumber(Last(placed)), ExtractNumber(f))
         THEN Append(placed, f)
         ELSE Append(InsertByKey(SubSeq(placed, 1, Len(placed) - 1), f), Last(placed))

RECURSIVE SortedByKey(_)
SortedByKey(files) ==
    IF files = <<>> THEN <<>>
    ELSE InsertByKey(SortedByKey(SubSeq(files, 1, Len(files) - 1)), Last(files))

\* the loop over folder.iterdir(): the entries with one of the extensions
HasExtension(name, extensions) == Lower(Suffix(name)) \in extensions

RECURSIVE FilterFiles(_, _)
FilterFiles(listing, extensions) ==
    IF listing = <<>> THEN <<>>
    ELSE (IF HasExtension(listing[1], extensions) THEN <<listing[1]>> ELSE <<>>)
         \o FilterFiles(Tail(listing), extensions)

\* get_files(folder, extensions) for a folder whose iterdir() is `listing`
GetFiles(listing, extensions) == SortedByKey(FilterFiles(listing, extensions))

\* the file names the folders are filled with
FolderNames ==
    {SegmentPrefix \o <<"2">> \o DotWav,
     SegmentPrefix \o <<"1", "0">> \o DotWav,
     SegmentPrefix \o <<"1">> \o <<".", "W", "A", "V">>,
     SegmentPrefix \o <<"x">> \o DotWav,
     SegmentPrefix \o <<"2", "-", "a">> \o DotWav,
     ScenePrefix \o <<"0", "0", "-", "0", "5">> \o DotJpg,
     ScenePrefix \o <<"0", "0", "-", "1", "0">> \o DotJpg,
     <<"c", "o", "v", "e", "r">> \o DotJpg,
     <<"v", "2", "_", "1", "0">> \o DotJpg}

FilesIdle ==
    /\ fl_listing = <<>>
    /\ fl_relisting = <<>>
    /\ fl_exts = AudioExtensions
    /\ fl_out = [ran |-> FALSE, files |-> <<>>, refiles |-> <<>>]

\* ------------------------------------------------------ main_generate_images

\* str.replace(old, new) for one-character strings
Replace(s, old, new) == [i \in 1..Len(s) |-> IF s[i] = old THEN new ELSE s[i]]

\* f"{idx:03d}"
Pad3(idx) ==
    LET ds == Decimal(idx)
    IN  IF Len(ds) >= 3 THEN ds ELSE Repeat("0", 3 - Len(ds)) \o ds

\* a scene of data["visual_script"]: whether it has a prompt, and its
\* timestamp_start: a string, NoTimestamp when the key is missing, or
\* NumericTimestamp for a JSON number (which has no .replace)
NoTimestamp == <<"n", "o", "n", "e">>
NumericTimestamp == <<"#">>
SceneTimestamps == {<<"0", "0", ":", "0", "0">>, <<"0", "0", ":", "0", "5">>,
                    NoTimestamp, NumericTimestamp}
Scenes == [prompt : BOOLEAN, timestamp_start : SceneTimestamps]

\* what the image API and the download do for a scene that is requested
ImageOutcomes == {"ok", "no_urls", "empty_url", "download_fails"}

\* images_output_path / f"scene_{scene_id}.jpg"
SceneFile(scene, idx) ==
    LET timestamp == IF scene.timestamp_start = NoTimestamp THEN Pad3(idx)
                     ELSE scene.timestamp_start
    IN  ScenePrefix \o Replace(timestamp, ":", "-") \o DotJpg

\* where the loop goes after a scene that produced no image: `continue`, the
\* next scene; and a mutant that leaves the loop
AfterFailureAbort(idx, n) == n

AfterFailure(idx, n) == idx + 1

\* the loop over enumerate(data["visual_script"]) from scene idx (0-based) on.
\* st records the scenes visited, the scenes the API was asked for, the files
\* written, success_count, the number of rate-limit sleeps and the scenes
\* after whose API call the loop slept.
RECURSIVE ImageLoop(_, _, _, _)
ImageLoop(script, outcomes, idx, st) ==
    IF idx >= Len(script) THEN st
    ELSE LET scene == script[idx + 1]
             seen == [st EXCEPT !.visited = Append(@, idx)]
             asked == [seen EXCEPT !.requested = Append(@, idx)]
         IN  IF ~scene.prompt
             THEN ImageLoop(script, outcomes, AfterFailure(idx, Len(script)), seen)
             ELSE IF scene.timestamp_start = NumericTimestamp
             THEN ImageLoop(script, outcomes, AfterFailure(idx, Len(script)),
                            [seen EXCEPT !.caught = Append(@, idx)])
             ELSE IF outcomes[idx + 1] \in {"no_urls", "empty_url"}
             THEN ImageLoop(script, outcomes, AfterFailure(idx, Len(script)), asked)
             ELSE IF outcomes[idx + 1] = "download_fails"
             THEN ImageLoop(script, outcomes, AfterFailure(idx, Len(script)),
                            [asked EXCEPT !.sleeps = @ + 1,
                                          !.paused = Append(@, idx)])
             ELSE ImageLoop(script, outcomes, idx + 1,
                            [asked EXCEPT
                                !.files = Put(@, SceneFile(scene, idx), idx),
                                !.success_count = @ + 1,
                                !.sleeps = @ + 1,
                                !.paused = Append(@, idx)])

\* main_generate_images on a readable script with a "visual_script" key and
\* an empty output folder
MainGenerateImages(script, outcomes) ==
    LET st == ImageLoop(script, outcomes, 0,
                        [visited |-> <<>>, requested |-> <<>>, caught |-> <<>>,
                         files |-> EmptyDir, success_count |-> 0, sleeps |-> 0,
                         paused |-> <<>>])
    IN  [ran |-> TRUE, raised |-> FALSE, visited |-> st.visited,
         requested |-> st.requested, caught |-> st.caught, files |-> st.files,
         success_count |-> st.success_count, sleeps |-> st.sleeps,
         paused |-> st.paused,
         result |-> st.success_count > 0]

ImagingNotRun ==
    [ran |-> FALSE, raised |-> FALSE, visited |-> <<>>, requested |-> <<>>,
     caught |-> <<>>, files |-> EmptyDir, success_count |-> 0, sleeps |-> 0,
     paused |-> <<>>, result |-> FALSE]

ImagingIdle ==
    /\ ig_script = <<>>
    /\ ig_outcomes = <<>>
    /\ ig_out = ImagingNotRun

\* ------------------------------------------------------- main_generate_audio

\* generate_audio: one pipeline call per segment, no try: the first call that
\* raises ends the function, and the clips made so far are dropped with it
RECURSIVE GenerateAudio(_, _, _, _)
GenerateAudio(texts, fails, i, all_audio) ==
    IF i > Len(texts) THEN [raised |-> FALSE, all_audio |-> all_audio]
    ELSE IF i \in fails THEN [raised |-> TRUE, all_audio |-> <<>>]
    ELSE GenerateAudio(texts, fails, i + 1, Append(all_audio, texts[i]))

\* merge_audio: audio_path / f"segment_{idx}.wav" for every clip
RECURSIVE MergeAudio(_, _, _)
MergeAudio(dir, audio_bytes_list, idx) ==
    IF idx >= Len(audio_bytes_list) THEN dir
    ELSE MergeAudio(Put(dir, SegmentPrefix \o Decimal(idx) \o DotWav,
                        audio_bytes_list[idx + 1]),
                    audio_bytes_list, idx + 1)

\* main_generate_audio on a readable script with an "audio_script" key and
\* an empty audio folder: the exception of generate_audio passes through
MainGenerateAudio(texts, fails) ==
    LET g == GenerateAudio(texts, fails, 1, <<>>)
    IN  IF g.raised THEN [ran |-> TRUE, raised |-> TRUE, files |-> EmptyDir]
        ELSE [ran |-> TRUE, raised |-> FALSE,
              files |-> MergeAudio(EmptyDir, g.all_audio, 0)]

NarratingIdle ==
    /\ na_script = <<>>
    /\ na_fails = {}
    /\ na_out = [ran |-> FALSE, raised |-> FALSE, files |-> EmptyDir]

\* ----------------------------------------------------------- _clean_directory

\* a folder: whether it exists, and its entries [name, kind, stuck]; kind is
\* "file", "dir" or "other" (neither is_file() nor is_dir()), and stuck says
\* that deleting the entry raises
Absent == [exists |-> FALSE, entries |-> {}]

CleanNames == {"x", "y", "z"}
CleanEntries == [name : CleanNames, kind : {"file", "dir", "other"}, stuck : BOOLEAN]

\* the folders with at most one entry per name
CleanFolders ==
    {Absent} \cup
    {[exists |-> TRUE, entries |-> es] :
        es \in {S \in SUBSET CleanEntries :
                   \A a, b \in S : a.name = b.name => a = b}}

\* a mutant that creates the folder when it is missing
CleanDirectoryMkdir(folder) ==
    [raised |-> FALSE,
     folder |-> [exists |-> TRUE,
                 entries |-> {e \in folder.entries : e.kind = "other" \/ e.stuck}]]

\* _clean_directory(folder_path): return at once when the path does not
\* exist; else unlink the files and rmtree the directories, logging and
\* passing over every entry whose deletion raises
CleanDirectory(folder) ==
    IF ~folder.exists THEN [raised |-> FALSE, folder |-> folder]
    ELSE [raised |-> FALSE,
          folder |-> [exists |-> TRUE,
                      entries |-> {e \in folder.entries :
                                      e.kind = "other" \/ e.stuck}]]

CleaningIdle ==
    /\ cl_folder = Absent
    /\ cl_log = <<[raised |-> FALSE, folder |-> Absent]>>

PipeInit ==
    /\ pc = [j \in Jobs |-> "IDLE"]
    /\ topic = [j \in Jobs |-> <<>>]
    /\ video_filename = [j \in Jobs |-> <<>>]
    /\ response = [j \in Jobs |-> <<>>]
    /\ clock = 0
    /\ ran = [j \in Jobs |-> <<>>]
    /\ raised = [j \in Jobs |-> "none"]
    /\ swallowed = [j \in Jobs |-> {}]
    /\ copying = [j \in Jobs |-> FALSE]
    /\ deleted = [j \in Jobs |-> {}]
    /\ overwrote = [j \in Jobs |-> {}]
    /\ script_json = EmptyDir
    /\ images_dir = EmptyDir
    /\ audio_dir = EmptyDir
    /\ subtitles_dir = EmptyDir
    /\ video_dir = EmptyDir
    /\ static_videos = EmptyDir

TimingIdle ==
    /\ tm_script = <<>>
    /\ tm_durations = <<>>
    /\ tm_chunk = 1
    /\ tm_images = 0
    /\ tm_ran = {}
    /\ tm_srt = [ok |-> FALSE, cues |-> <<>>]
    /\ tm_video = <<>>
    /\ tm_clips = <<>>
    /\ tm_timeline = <<>>

Init ==
    /\ PipeInit /\ TimingIdle
    /\ FilesIdle /\ ImagingIdle /\ NarratingIdle /\ CleaningIdle

Next ==
    \/ \E j \in Jobs, t \in Topics, now \in 0..MaxTime : Submit(j, t, now)
    \/ \E j \in Jobs : StartTask(j)
    \/ \E j \in Jobs : Cleaning(j)
    \/ \E j \in Jobs, s \in Scripts : Scripting(j, s)
    \/ \E j \in Jobs : ScriptingFails(j)
    \/ \E j \in Jobs, ok \in SUBSET {1} : Imaging(j, ok)
    \/ \E j \in Jobs : Narrating(j)
    \/ \E j \in Jobs : NarratingFails(j)
    \/ \E j \in Jobs : Timing(j)
    \/ \E j \in Jobs : TimingSwallowed(j)
    \/ \E j \in Jobs : \E order \in ImageOrders(images_dir) : Assembling(j, order)
    \/ \E j \in Jobs : AssemblingFails(j)
    \/ \E j \in Jobs : PublishBegin(j)
    \/ \E j \in Jobs : PublishEnd(j)
    \/ \E j \in Jobs : PublishFails(j)

Spec == Init /\ [][Next]_vars

\* logger.error(f"Video generation task failed: {str(e)}", exc_info=True):
\* what is recorded for a job whose task raised. The record holds the text
\* of the exception; no field or word of it names the step.
LoggedFailure(j) ==
    IF raised[j] = "none"
    THEN [logged |-> FALSE, stage |-> "none", cause |-> "none"]
    ELSE [logged |-> TRUE, stage |-> "none", cause |-> "str(e)"]

\* the requests of the liveness runs: one topic, and the scripts of one
\* narration segment (what a task does next never depends on either)
LiveTopics == {<<"a", " ">>}
LiveScripts == {s \in Scripts : Len(s.audio_script) = 1}

\* the next statement of the background task of job j
TaskStep(j) ==
    \/ StartTask(j)
    \/ Cleaning(j)
    \/ \E s \in LiveScripts : Scripting(j, s)
    \/ ScriptingFails(j)
    \/ \E ok \in SUBSET {1} : Imaging(j, ok)
    \/ Narrating(j)
    \/ NarratingFails(j)
    \/ Timing(j)
    \/ TimingSwallowed(j)
    \/ \E order \in ImageOrders(images_dir) : Assembling(j, order)
    \/ AssemblingFails(j)
    \/ PublishBegin(j)
    \/ PublishEnd(j)
    \/ PublishFails(j)

LiveNext ==
    \/ \E j \in Jobs, t \in LiveTopics : Submit(j, t, 0)
    \/ \E j \in Jobs : TaskStep(j)

\* the pipeline with every queued task run by the worker pool and every
\* external call returning: a task that can take a step takes one
SpecLive == Init /\ [][LiveNext]_vars /\ \A j \in Jobs : WF_vars(TaskStep(j))

\* ------------------------------------------- the timing engine on its own

\* sequences of at most n elements of S
SeqsUpTo(S, n) == UNION {[1..k -> S] : k \in 0..n}

AsSeconds(durations) == [i \in 1..Len(durations) |-> RatInt(durations[i])]

\* the inputs: narration texts, clip durations (their numbers may differ),
\* chunk_size and the number of image files
TimingInit ==
    /\ PipeInit /\ FilesIdle /\ ImagingIdle /\ NarratingIdle /\ CleaningIdle
    /\ tm_script \in SeqsUpTo(Texts, MaxSegs)
    /\ tm_durations \in SeqsUpTo(Durations, MaxSegs)
    /\ tm_chunk \in (1..MaxChunk) \cup {DEFAULT_CHUNK_SIZE}
    /\ tm_images \in 0..MaxSegs
    /\ tm_ran = {}
    /\ tm_srt = [ok |-> FALSE, cues |-> <<>>]
    /\ tm_video = <<>>
    /\ tm_clips = <<>>
    /\ tm_timeline = <<>>

\* create_complete_srt(script, audio folder, outfile, chunk_size)
RunSrt ==
    /\ "srt" \notin tm_ran
    /\ tm_ran' = tm_ran \cup {"srt"}
    /\ tm_srt' = CreateCompleteSrt(tm_script, AsSeconds(tm_durations), tm_chunk)
    /\ UNCHANGED <<tm_script, tm_durations, tm_chunk, tm_images, tm_video, tm_clips,
                   tm_timeline, pipeVars, flVars, igVars, naVars, clVars>>

\* create_video(..., with_subtitles=True) on the same script and folders
RunVideo ==
    /\ "video" \notin tm_ran
    /\ tm_ran' = tm_ran \cup {"video"}
    /\ tm_video' = CreateVideoCues(tm_script, tm_images, AsSeconds(tm_durations))
    /\ tm_clips' = CreateVideoClips(tm_images, Len(tm_durations))
    /\ tm_timeline' = CreateVideoTimeline(tm_images, AsSeconds(tm_durations))
    /\ UNCHANGED <<tm_script, tm_durations, tm_chunk, tm_images, tm_srt,
                   pipeVars, flVars, igVars, naVars, clVars>>

TimingNext == RunSrt \/ RunVideo

SpecTiming == TimingInit /\ [][TimingNext]_vars

\* ------------------------------------------------------- get_files on its own

Range(q) == {q[i] : i \in DOMAIN q}
IsInjective(q) == \A a, b \in DOMAIN q : a # b => q[a] # q[b]

\* the ways iterdir() can list a folder of at most n of the names S
Listings(S, n) == {q \in SeqsUpTo(S, n) : IsInjective(q)}

\* the other ways iterdir() can list the entries of `listing`
Relistings(listing) ==
    {q \in [DOMAIN listing -> Range(listing)] : IsInjective(q)}

FilesInit ==
    /\ PipeInit /\ TimingIdle /\ ImagingIdle /\ NarratingIdle /\ CleaningIdle
    /\ fl_listing \in Listings(FolderNames, MaxFiles)
    /\ fl_relisting \in Relistings(fl_listing)
    /\ fl_exts \in {AudioExtensions, ImageExtensions}
    /\ fl_out = [ran |-> FALSE, files |-> <<>>, refiles |-> <<>>]

\* get_files(folder, extensions), called twice on the same folder contents
RunGetFiles ==
    /\ ~fl_out.ran
    /\ fl_out' = [ran |-> TRUE,
                  files |-> GetFiles(fl_listing, fl_exts),
                  refiles |-> GetFiles(fl_relisting, fl_exts)]
    /\ UNCHANGED <<fl_listing, fl_relisting, fl_exts, pipeVars, tmVars, igVars,
                   naVars, clVars>>

SpecFiles == FilesInit /\ [][RunGetFiles]_vars

\* ------------------------------------------- main_generate_images on its own

ImagingInit ==
    /\ PipeInit /\ TimingIdle /\ FilesIdle /\ NarratingIdle /\ CleaningIdle
    /\ ig_script \in SeqsUpTo(Scenes, MaxScenes)
    /\ ig_outcomes \in [DOMAIN ig_script -> ImageOutcomes]
    /\ ig_out = ImagingNotRun

RunGenerateImages ==
    /\ ~ig_out.ran
    /\ ig_out' = MainGenerateImages(ig_script, ig_outcomes)
    /\ UNCHANGED <<ig_script, ig_outcomes, pipeVars, tmVars, flVars, naVars, clVars>>

SpecImaging == ImagingInit /\ [][RunGenerateImages]_vars

\* -------------------------------------------- main_generate_audio on its own

NarratingInit ==
    /\ PipeInit /\ TimingIdle /\ FilesIdle /\ ImagingIdle /\ CleaningIdle
    /\ na_script \in SeqsUpTo(Texts, MaxSegs)
    /\ na_fails \in SUBSET (DOMAIN na_script)
    /\ na_out = [ran |-> FALSE, raised |-> FALSE, files |-> EmptyDir]

RunGenerateAudio ==
    /\ ~na_out.ran
    /\ na_out' = MainGenerateAudio(na_script, na_fails)
    /\ UNCHANGED <<na_script, na_fails, pipeVars, tmVars, flVars, igVars, clVars>>

SpecNarrating == NarratingInit /\ [][RunGenerateAudio]_vars

\* ------------------------------------- the audio store of one job on its own

\* the entries of a folder one after the other
RECURSIVE SetToSeq(_)
SetToSeq(S) ==
    IF S = {} THEN <<>>
    ELSE LET x == CHOOSE y \in S : TRUE IN <<x>> \o SetToSeq(S \ {x})

\* an order iterdir() can list the entries q in: from entry k on, every a-th
Stride(q, a, k) ==
    IF q = <<>> THEN <<>>
    ELSE [p \in 1..Len(q) |-> q[((a * (p - 1) + k) % Len(q)) + 1]]

\* a script of up to MaxNarration narration texts, all different, every one
\* of which the voice can speak; the audio folder is empty
StoreInit ==
    /\ PipeInit /\ TimingIdle /\ FilesIdle /\ ImagingIdle /\ CleaningIdle
    /\ na_script \in {[i \in 1..n |-> Decimal(i)] : n \in 0..MaxNarration}
    /\ na_fails = {}
    /\ na_out = [ran |-> FALSE, raised |-> FALSE, files |-> EmptyDir]

\* audio_files = get_files(audio_file_folder, (".wav", ".mp3")) on the
\* folder main_generate_audio has filled, listed by iterdir() in some order
GetAudioFiles(a, k) ==
    /\ na_out.ran /\ ~na_out.raised
    /\ ~fl_out.ran
    /\ LET entries == SetToSeq(DOMAIN na_out.files)
           n == Len(entries)
       IN  /\ a <= n \/ a = 1
           /\ k < n \/ k = 0
           /\ Gcd(a, n) = 1
           /\ fl_listing' = Stride(entries, a, k)
    /\ fl_relisting' = fl_listing'
    /\ fl_out' = [ran |-> TRUE,
                  files |-> GetFiles(fl_listing', AudioExtensions),
                  refiles |-> GetFiles(fl_relisting', AudioExtensions)]
    /\ UNCHANGED <<fl_exts, pipeVars, tmVars, igVars, naVars, clVars>>

StoreNext ==
    \/ RunGenerateAudio
    \/ \E a \in 1..MaxNarration, k \in 0..(MaxNarration - 1) : GetAudioFiles(a, k)

SpecStore == StoreInit /\ [][StoreNext]_vars

\* ----------------------------------------------- _clean_directory on its own

CleaningInit ==
    /\ PipeInit /\ TimingIdle /\ FilesIdle /\ ImagingIdle /\ NarratingIdle
    /\ cl_folder \in CleanFolders
    /\ cl_log = <<[raised |-> FALSE, folder |-> cl_folder]>>

\* one more call of _clean_directory on the folder
RunClean ==
    /\ Len(cl_log) <= MaxCleanRuns
    /\ LET r == CleanDirectory(cl_folder)
       IN  /\ cl_folder' = r.folder
           /\ cl_log' = Append(cl_log, r)
    /\ UNCHANGED <<pipeVars, tmVars, flVars, igVars, naVars>>

SpecCleaning == CleaningInit /\ [][RunClean]_vars

\* =================================================================== claims

RECURSIVE SumSeq(_)
SumSeq(q) == IF q = <<>> THEN 0 ELSE q[1] + SumSeq(Tail(q))

\* ------------------------------------------------------------------- C1
\* C1: in every run of _generate_video_task the stages start in the order
\* CLEANING, SCRIPTING, IMAGING, NARRATING, TIMING, ASSEMBLING, PUBLISHING,
\* one at a time and each at most once, and DONE is reached only after
\* PUBLISHING has finished (all seven stages ran and the copy has ended with
\* the file in the publish directory).
C1_StagesInOrder ==
    \A j \in Jobs :
        LET order == <<"CLEANING", "SCRIPTING", "IMAGING", "NARRATING", "TIMING",
                       "ASSEMBLING", "PUBLISHING">>
        IN  /\ Len(ran[j]) <= Len(order)
            /\ ran[j] = SubSeq(order, 1, Len(ran[j]))
            /\ pc[j] \in StageSet => ran[j] # <<>> /\ Last(ran[j]) = pc[j]
            /\ pc[j] \in {"IDLE", "PENDING"} => ran[j] = <<>>
            /\ pc[j] = "DONE" =>
                  /\ ran[j] = order
                  /\ ~copying[j]
                  /\ video_filename[j] \in ListVideos

C1_Witness == \E j \in Jobs : pc[j] = "DONE"

\* ------------------------------------------------------------------- C2
\* C2: concurrent jobs have their own scratch locations: the cleaning of one
\* job never deletes an artifact of another running job, no job writes over
\* the script, image or audio files of another running job, and the clips of
\* an assembled video were all generated by the job that assembled it.
C2_JobsIsolated ==
    /\ \A j \in Jobs : deleted[j] = {} /\ overwrote[j] = {}
    /\ \A f \in DOMAIN video_dir :
          \A i \in DOMAIN video_dir[f].clips :
              /\ video_dir[f].clips[i].image.by = video_dir[f].by
              /\ video_dir[f].clips[i].audio.by = video_dir[f].by

\* ------------------------------------------------------------------- C3
\* C3: every file a reader can list or download from the publish directory
\* is a completely written video, and a job that ended FAILED has left no
\* file of its own there.
C3_PublishedComplete ==
    /\ \A name \in ListVideos : DownloadVideo(name).file.complete
    /\ \A j \in Jobs :
          pc[j] = "FAILED" /\ raised[j] = "PUBLISHING" =>
              video_filename[j] \notin ListVideos

\* ------------------------------------------------------------------- C4
\* C4: once a stage of a job has raised, the job is FAILED, the stage that
\* raised is the last one it ever started, no stage was started twice, and
\* FAILED is never left.
C4_FailureHalts ==
    /\ [](\A j \in Jobs :
            /\ raised[j] # "none" =>
                  pc[j] = "FAILED" /\ ran[j] # <<>> /\ Last(ran[j]) = raised[j]
            /\ \A a, b \in DOMAIN ran[j] : a # b => ran[j][a] # ran[j][b])
    /\ [][\A j \in Jobs :
            pc[j] = "FAILED" => pc'[j] = "FAILED" /\ ran'[j] = ran[j]]_vars

C4_Witness ==
    \E j \in Jobs : pc[j] = "FAILED" /\ raised[j] = "NARRATING"
                    /\ \E k \in Jobs \ {j} : pc[k] = "DONE"

\* ------------------------------------------------------------------- C5
\* C5: a failure of subtitle generation is never swallowed: a job whose
\* create_complete_srt failed is FAILED, and whenever a job is in ASSEMBLING
\* its subtitle file exists and was written by it.
C5_TimingFailureFatal ==
    \A j \in Jobs :
        /\ "TIMING" \in swallowed[j] => pc[j] = "FAILED"
        /\ pc[j] = "ASSEMBLING" =>
              /\ CleanTopic(topic[j]) \in DOMAIN subtitles_dir
              /\ subtitles_dir[CleanTopic(topic[j])].by = j

\* ------------------------------------------------------------------- C6
\* C6: any two distinct submissions receive distinct output filenames.
C6_FilenamesDistinct ==
    \A j, k \in Jobs :
        j # k /\ pc[j] # "IDLE" /\ pc[k] # "IDLE" =>
            video_filename[j] # video_filename[k]

\* ------------------------------------------------------------------- C7
\* C7: the cues create_complete_srt produces form a gapless chain: the first
\* cue starts at the intro offset of 5 s, every cue starts where the one
\* before it ends, no cue ends before it starts, and, for as many texts as
\* durations, the last cue ends at 5 s plus the sum of all durations.
C7_CuesChain ==
    "srt" \in tm_ran =>
        LET cues == tm_srt.cues
        IN  /\ cues # <<>> => cues[1].start = RatInt(5)
            /\ \A i \in 1..(Len(cues) - 1) : cues[i + 1].start = cues[i].end
            /\ \A i \in 1..Len(cues) : RatLeq(cues[i].start, cues[i].end)
            /\ Len(tm_script) = Len(tm_durations) /\ tm_script # <<>> =>
                  /\ cues # <<>>
                  /\ Last(cues).end = RatInt(5 + SumSeq(tm_durations))

C7_Witness ==
    /\ "srt" \in tm_ran
    /\ Len(tm_script) = 2 /\ Len(tm_durations) = 2
    /\ Len(tm_srt.cues) = 4
    /\ tm_chunk = 2

\* ------------------------------------------------------------------- C8
\* the number of cues the timing rule gives a text of W words
CueCount(W, chunk_size) ==
    IF W > chunk_size THEN (W + chunk_size - 1) \div chunk_size ELSE 1

\* the number of cues of the segments before segment k
RECURSIVE CuesBefore(_, _, _)
CuesBefore(script, chunk_size, k) ==
    IF k <= 1 THEN 0
    ELSE CuesBefore(script, chunk_size, k - 1)
         + CueCount(Len(Split(script[k - 1])), chunk_size)

\* cues first+1 .. first+n split a text of W words lasting D seconds into
\* chunks of chunk_size words, the last one of the rest, each lasting
\* D * wc / W: together they last D
ProportionalChunks(cues, first, W, D, chunk_size) ==
    LET n == CueCount(W, chunk_size)
    IN  /\ Len(cues) >= first + n
        /\ \A c \in 1..n :
              LET cue == cues[first + c]
                  wc == Len(Split(cue.text))
              IN  /\ wc = Min(chunk_size, W - (c - 1) * chunk_size)
                  /\ cue.end = RatAdd(cue.start, Rat(D * wc, W))
        /\ cues[first + n].end = RatAdd(cues[first + 1].start, RatInt(D))

\* a text of n words
WordsText(n) == Join([i \in 1..n |-> <<"a">>])

\* C8: a segment of W > chunk_size words lasting D is split into consecutive
\* chunks of chunk_size words (the last one shorter), the chunk of wc words
\* lasting D * wc / W, so that the chunks of the segment last D together; and
\* 25 words, 10 s, chunk_size 10 give cues of 10, 10, 5 words ending at
\* t + 4, t + 8, t + 10.
C8_ProportionalSplit ==
    /\ "srt" \in tm_ran =>
          \A k \in 1..Min(Len(tm_script), Len(tm_durations)) :
              Len(Split(tm_script[k])) > tm_chunk =>
                  ProportionalChunks(tm_srt.cues,
                                     CuesBefore(tm_script, tm_chunk, k),
                                     Len(Split(tm_script[k])),
                                     tm_durations[k], tm_chunk)
    /\ LET cues == CreateCompleteSrt(<<WordsText(25)>>, <<RatInt(10)>>, 10).cues
       IN  /\ Len(cues) = 3
           /\ ProportionalChunks(cues, 0, 25, 10, 10)
           /\ <<cues[1].end, cues[2].end, cues[3].end>>
                 = <<RatInt(5 + 4), RatInt(5 + 8), RatInt(5 + 10)>>

C8_Witness ==
    /\ "srt" \in tm_ran
    /\ tm_chunk = 2
    /\ \E k \in 1..Min(Len(tm_script), Len(tm_durations)) :
          /\ Len(Split(tm_script[k])) = 5
          /\ tm_durations[k] = 2
          /\ k = 2
    /\ Len(tm_srt.cues) >= 4

\* ------------------------------------------------------------------- C9
\* C9: with different numbers of texts and durations the timing routine fails
\* with an alignment error and saves no cues.
C9_AlignmentError ==
    "srt" \in tm_ran /\ Len(tm_script) # Len(tm_durations) =>
        ~tm_srt.ok /\ tm_srt.cues = <<>>

\* ------------------------------------------------------------------ C10
\* C10: for the same script, audio clips, images and chunk size, the caption
\* cues of create_video are the cues create_complete_srt saves.
C10_SameCues ==
    /\ {"srt", "video"} \subseteq tm_ran
    /\ tm_chunk = VideoChunkSize
    => tm_video = tm_srt.cues

\* ------------------------------------------------------------------ C11
\* the spec's reading of an identifier, written without the code's branches:
\* the value of a numeral
RECURSIVE NumeralValue(_)
NumeralValue(ds) ==
    IF ds = <<>> THEN 0
    ELSE NumeralValue(SubSeq(ds, 1, Len(ds) - 1)) * 10
         + (CHOOSE v \in 0..9 : DigitChars[v + 1] = ds[Len(ds)])

\* the digits a text begins with
RECURSIVE LeadingDigits(_)
LeadingDigits(t) ==
    IF t = <<>> \/ ~IsDigit(t[1]) THEN <<>> ELSE <<t[1]>> \o LeadingDigits(Tail(t))

HasDigits(t) == \E i \in 1..Len(t) : IsDigit(t[i])

\* the text after the first "_" of an identifier (<<>> without "_")
AfterUnderscore(id) ==
    IF \E i \in 1..Len(id) : id[i] = "_"
    THEN LET i == CHOOSE k \in 1..Len(id) :
                      id[k] = "_" /\ \A m \in 1..(k - 1) : id[m] # "_"
         IN  SubSeq(id, i + 1, Len(id))
    ELSE <<>>

\* <prefix>_<n> or <prefix>_<n>-<suffix>
IsIndexedForm(id) ==
    LET rest == AfterUnderscore(id)
        n == LeadingDigits(rest)
    IN  n # <<>> /\ (Len(n) = Len(rest) \/ rest[Len(n) + 1] = "-")

\* the index the parsing rule gives an identifier that contains digits
RuleIndex(id) ==
    IF IsIndexedForm(id) THEN NumeralValue(LeadingDigits(AfterUnderscore(id)))
    ELSE NumeralValue(DigitRuns(id)[1])

\* the identifiers the pipeline writes: segment_<n> and scene_<n>[-<suffix>]
IsArtifactName(name) ==
    /\ IsIndexedForm(Stem(name))
    /\ \/ /\ StartsWith(Stem(name), SegmentPrefix)
          /\ LeadingDigits(AfterUnderscore(Stem(name))) = AfterUnderscore(Stem(name))
       \/ StartsWith(Stem(name), ScenePrefix)

\* C11: get_files returns every entry with one of the extensions (compared
\* in lower case) exactly once and nothing else, and the artifact files
\* segment_<n> and scene_<n>-<suffix> come by non-decreasing n compared as
\* integers: segment_2 before segment_10.
C11_NumericOrder ==
    fl_out.ran =>
        LET files == fl_out.files
        IN  /\ Range(files) = {n \in Range(fl_listing) :
                                  Lower(Suffix(n)) \in fl_exts}
            /\ IsInjective(files)
            /\ \A a, b \in DOMAIN files :
                  a < b /\ IsArtifactName(files[a]) /\ IsArtifactName(files[b]) =>
                      RuleIndex(Stem(files[a])) <= RuleIndex(Stem(files[b]))

C11_Witness ==
    /\ fl_out.ran
    /\ fl_listing = <<SegmentPrefix \o <<"1", "0">> \o DotWav,
                      SegmentPrefix \o <<"2">> \o DotWav,
                      SegmentPrefix \o <<"1">> \o <<".", "W", "A", "V">>>>
    /\ fl_out.files = <<SegmentPrefix \o <<"1">> \o <<".", "W", "A", "V">>,
                        SegmentPrefix \o <<"2">> \o DotWav,
                        SegmentPrefix \o <<"1", "0">> \o DotWav>>

\* ------------------------------------------------------------------ C12
\* C12: two calls of get_files on the same set of files return the same
\* sequence, whatever order the filesystem lists the folder in.
C12_OrderIndependent ==
    fl_out.ran /\ Range(fl_listing) = Range(fl_relisting) =>
        fl_out.files = fl_out.refiles

\* ------------------------------------------------------------------ C13
\* C13: for every returned file whose identifier contains digits, the sort
\* key is the index of the parsing rule: n for <prefix>_<n> and
\* <prefix>_<n>-<suffix> with any prefix, else the first run of digits.
C13_IndexRule ==
    fl_out.ran =>
        \A i \in DOMAIN fl_out.files :
            HasDigits(Stem(fl_out.files[i])) =>
                ExtractNumber(fl_out.files[i]) = <<0, RuleIndex(Stem(fl_out.files[i]))>>

\* ------------------------------------------------------------------ C14
\* C14: get_files returns every file without digits in its identifier after
\* every file with digits, and the files without digits in the order the
\* folder listed them.
C14_NoDigitsLast ==
    fl_out.ran =>
        LET files == fl_out.files
            Listed(n) == CHOOSE k \in DOMAIN fl_listing : fl_listing[k] = n
        IN  \A a, b \in DOMAIN files :
                a < b /\ ~HasDigits(Stem(files[a])) =>
                    /\ ~HasDigits(Stem(files[b]))
                    /\ Listed(files[a]) < Listed(files[b])

C16_PositionalPairs ==
    "video" \in tm_ran /\ tm_images > 0 =>
        /\ Len(tm_clips) = Min(tm_images, Len(tm_durations))
        /\ \A i \in DOMAIN tm_clips : tm_clips[i] = [image |-> i, audio |-> i]

C16_Witness ==
    /\ "video" \in tm_ran
    /\ tm_images = 1
    /\ Len(tm_durations) = 2
    /\ Len(tm_clips) = 1

\* ------------------------------------------------------------------ C17
\* the scenes of a script that end without an image
FailedScenes(script, outcomes) ==
    {i \in DOMAIN script :
        \/ ~script[i].prompt
        \/ script[i].timestamp_start = NumericTimestamp
        \/ outcomes[i] # "ok"}

\* the scenes the image API can be asked for, in script order (0-based)
RECURSIVE Requestable(_, _)
Requestable(script, i) ==
    IF i > Len(script) THEN <<>>
    ELSE (IF script[i].prompt /\ script[i].timestamp_start # NumericTimestamp
          THEN <<i - 1>> ELSE <<>>) \o Requestable(script, i + 1)

\* C17: main_generate_images never raises and never stops early: it visits
\* every scene in script order and asks the image API for every scene that
\* has a prompt and a usable label, whatever happened to the scenes before;
\* with k scenes ending without an image at most N - k image files exist.
C17_SceneFailureSkipped ==
    ig_out.ran =>
        /\ ~ig_out.raised
        /\ ig_out.visited = [i \in 1..Len(ig_script) |-> i - 1]
        /\ ig_out.requested = Requestable(ig_script, 1)
        /\ Cardinality(DOMAIN ig_out.files)
              <= Len(ig_script) - Cardinality(FailedScenes(ig_script, ig_outcomes))

C17_Witness ==
    /\ ig_out.ran
    /\ Len(ig_script) = 2
    /\ ig_script[1].prompt /\ ig_outcomes[1] = "no_urls"
    /\ ig_script[1].timestamp_start # NumericTimestamp
    /\ ig_out.visited = <<0, 1>>
    /\ Cardinality(DOMAIN ig_out.files) = 1

\* ------------------------------------------------------------------ C18
\* C18: a job whose IMAGING produced no image is FAILED, and IMAGING is the
\* last stage it started.
C18_ZeroImagesFatal ==
    \A j \in Jobs :
        "IMAGING" \in swallowed[j] => pc[j] = "FAILED" /\ Last(ran[j]) = "IMAGING"

\* ------------------------------------------------------------------ C19
\* C19: main_generate_audio raises only if the synthesis of every segment
\* failed, and otherwise stores one clip for every segment whose synthesis
\* succeeded.
C19_SegmentFailureSkipped ==
    na_out.ran =>
        /\ na_out.raised => na_script # <<>> /\ na_fails = DOMAIN na_script
        /\ na_fails # DOMAIN na_script =>
              Cardinality(DOMAIN na_out.files) = Len(na_script) - Cardinality(na_fails)

\* ------------------------------------------------------------------ C20
\* C20: _clean_directory never raises; on a folder that does not exist it
\* leaves the folder non-existent; and every further call leaves the folder
\* as the first call left it.
C20_CleanIdempotent ==
    \A k \in 2..Len(cl_log) :
        /\ ~cl_log[k].raised
        /\ ~cl_log[1].folder.exists => cl_log[k].folder = cl_log[1].folder
        /\ cl_log[k].folder = cl_log[2].folder

C20_Witness ==
    /\ Len(cl_log) = 3
    /\ cl_folder = cl_log[3].folder
    /\ \E e \in cl_log[1].folder.entries : e.kind = "file" /\ ~e.stuck
    /\ \E e \in cl_log[1].folder.entries : e.kind = "dir" /\ e.stuck
    /\ Cardinality(cl_log[3].folder.entries) = 1

\* ------------------------------------------------------------------ C21
\* C21: the step that carries a job out of CLEANING changes nothing outside
\* the image and audio folders: the publish directory, the script file, the
\* subtitle folder and the scratch video folder are as before.
C21_CleaningFrame ==
    [][\A j \in Jobs :
          pc[j] = "CLEANING" /\ pc'[j] # "CLEANING" =>
              /\ static_videos' = static_videos
              /\ script_json' = script_json
              /\ subtitles_dir' = subtitles_dir
              /\ video_dir' = video_dir
              /\ images_dir' = Keep(images_dir, DOMAIN images_dir')
              /\ audio_dir' = Keep(audio_dir, DOMAIN audio_dir')]_vars

C21_Witness ==
    \E j \in Jobs :
        /\ pc[j] = "SCRIPTING"
        /\ static_videos # EmptyDir /\ video_dir # EmptyDir
        /\ subtitles_dir # EmptyDir /\ script_json # EmptyDir
        /\ images_dir = EmptyDir /\ audio_dir = EmptyDir

\* ------------------------------------------------------------------ C23
\* C23: generate_video_async answers with success and the filename F before
\* any step of the task has run, the answer never changes, and the step that
\* completes a job leaves under exactly F, in the publish directory, the
\* completely copied file of the job's scratch video path.
C23_AckThenPublishedAsPredicted ==
    /\ [](\A j \in Jobs :
            /\ pc[j] # "IDLE" =>
                  response[j] = [success |-> TRUE, video_filename |-> video_filename[j]]
            /\ pc[j] = "PENDING" => ran[j] = <<>>)
    /\ [][\A j \in Jobs :
            /\ pc[j] = "IDLE" /\ pc'[j] # "IDLE" =>
                  pc'[j] = "PENDING" /\ response'[j].success
            /\ pc[j] # "IDLE" => response'[j] = response[j]
            /\ pc[j] # "DONE" /\ pc'[j] = "DONE" =>
                  LET F == response[j].video_filename
                  IN  /\ F \in DOMAIN static_videos'
                      /\ static_videos'[F] = [video |-> video_dir[F], complete |-> TRUE]]_vars

C23_Witness ==
    \E j, k \in Jobs :
        /\ pc[j] = "DONE" /\ response[j].video_filename \in ListVideos
        /\ pc[k] = "PENDING" /\ response[k].success
        /\ response[k].video_filename \notin ListVideos

C25_ScriptPersistedFirst ==
    /\ [](\A j \in Jobs :
            /\ pc[j] \in {"IMAGING", "NARRATING", "TIMING", "ASSEMBLING"} =>
                  "script.json" \in DOMAIN script_json
            /\ raised[j] = "SCRIPTING" => ran[j] = <<"CLEANING", "SCRIPTING">>)
    /\ [][\A j \in Jobs :
            /\ pc[j] = "NARRATING" /\ pc'[j] = "TIMING" =>
                  {n \in DOMAIN audio_dir' : audio_dir'[n].by = j}
                     = 0..(Len(script_json["script.json"].script.audio_script) - 1)
            /\ pc[j] = "TIMING" /\ pc'[j] = "ASSEMBLING" /\ "TIMING" \notin swallowed'[j] =>
                  subtitles_dir'[CleanTopic(topic[j])].cues
                     = CreateCompleteSrtCues(
                          script_json["script.json"].script.audio_script,
                          [i \in 1..Len(AudioFiles(audio_dir)) |->
                              RatInt(AudioFiles(audio_dir)[i].dur)],
                          DEFAULT_CHUNK_SIZE)]_vars

C25_Witness ==
    \E j \in Jobs :
        /\ pc[j] = "ASSEMBLING"
        /\ script_json["script.json"].by # j
        /\ \E n \in DOMAIN audio_dir : audio_dir[n].by = j

\* ------------------------------------------------------------------ C27
\* C27: for a failed job a failure is recorded that names the stage that
\* raised and carries the cause.
C27_FailureNamesStage ==
    \A j \in Jobs :
        pc[j] = "FAILED" =>
            /\ LoggedFailure(j).logged
            /\ LoggedFailure(j).cause # "none"
            /\ LoggedFailure(j).stage = raised[j]

\* ------------------------------------------------------------------ C28
\* C28: every job whose task was queued eventually is DONE or FAILED.
C28_Terminates ==
    \A j \in Jobs : (pc[j] = "PENDING") ~> (pc[j] \in {"DONE", "FAILED"})

C28_Witness ==
    \E j, k \in Jobs :
        /\ pc[j] = "DONE"
        /\ pc[k] = "FAILED" /\ raised[k] = "ASSEMBLING"

\* ------------------------------------------------------------------ C22
\* C22: the video is the title card from 0 to 5 s, then one clip per pair in
\* index order, each as long as its audio file, then the credits for 5 s;
\* every clip starts where the one before ends, so the video ends at
\* 5 + the sum of the paired durations + 5; two clips of 3 s and 4 s end
\* at 17 s.
C22_TimelineGapless ==
    /\ "video" \in tm_ran =>
          LET tl == tm_timeline
              n == Len(tm_clips)
          IN  /\ Len(tl) = n + 2
              /\ tl[1].kind = "intro" /\ tl[1].start = RatInt(0) /\ tl[1].end = RatInt(5)
              /\ \A i \in 1..n :
                    /\ tl[i + 1].kind = "clip" /\ tl[i + 1].audio = i
                    /\ tl[i + 1].end = RatAdd(tl[i + 1].start, RatInt(tm_durations[i]))
              /\ \A i \in 1..(Len(tl) - 1) : tl[i + 1].start = tl[i].end
              /\ tl[n + 2].kind = "outro"
              /\ tl[n + 2].end = RatAdd(tl[n + 2].start, RatInt(5))
              /\ tl[n + 2].end = RatInt(5 + SumSeq(SubSeq(tm_durations, 1, n)) + 5)
    /\ Last(CreateVideoTimeline(2, <<RatInt(3), RatInt(4)>>)).end = RatInt(17)

C22_Witness ==
    /\ "video" \in tm_ran
    /\ tm_images = 2
    /\ tm_durations = <<1, 2>>
    /\ Len(tm_timeline) = 4
    /\ tm_timeline[4].end = RatInt(13)

\* ------------------------------------------------------------------ C29
\* the words of the cues first+1 .. first+n, in order
RECURSIVE CueWords(_, _, _)
CueWords(cues, first, n) ==
    IF n = 0 THEN <<>>
    ELSE CueWords(cues, first, n - 1) \o Split(cues[first + n].text)

\* C29: a segment of W words has one cue when W <= chunk_size (also for
\* W = chunk_size and W = 0), with the whole text and the whole duration of
\* its audio, and ceil(W / chunk_size) cues otherwise; the words of its cues,
\* in order, are the words of the segment.
C29_CueCount ==
    "srt" \in tm_ran =>
        LET paired == Min(Len(tm_script), Len(tm_durations))
        IN  /\ Len(tm_srt.cues) = CuesBefore(tm_script, tm_chunk, paired + 1)
            /\ \A k \in 1..paired :
                  LET W == Len(Split(tm_script[k]))
                      first == CuesBefore(tm_script, tm_chunk, k)
                      n == CuesBefore(tm_script, tm_chunk, k + 1) - first
                  IN  /\ W <= tm_chunk =>
                            /\ n = 1
                            /\ tm_srt.cues[first + 1].text = tm_script[k]
                            /\ tm_srt.cues[first + 1].end
                                  = RatAdd(tm_srt.cues[first + 1].start,
                                           RatInt(tm_durations[k]))
                      /\ W > tm_chunk =>
                            /\ n * tm_chunk >= W
                            /\ (n - 1) * tm_chunk < W
                      /\ CueWords(tm_srt.cues, first, n) = Split(tm_script[k])

C29_Witness ==
    /\ "srt" \in tm_ran
    /\ tm_chunk = 2
    /\ Len(tm_durations) = 2
    /\ tm_script = <<<<" ", "a", " ", " ", "b">>,
                     <<"a", " ", "b", " ", "c", " ", "d", " ", "e">>>>
    /\ Len(tm_srt.cues) = 4

\* ------------------------------------------------------------------ C26
\* C26: main_generate_images sleeps after every call of the image API,
\* whatever the call returned: between two consecutive calls the delay has
\* elapsed.
C26_DelayAfterEveryCall ==
    ig_out.ran =>
        /\ ig_out.paused = ig_out.requested
        /\ ig_out.sleeps = Len(ig_out.requested)

\* ------------------------------------------------------------------ C30
\* the scenes whose image was downloaded, in script order (0-based)
RECURSIVE Succeeded(_, _, _)
Succeeded(script, outcomes, i) ==
    IF i > Len(script) THEN <<>>
    ELSE (IF i \in FailedScenes(script, outcomes) THEN <<>> ELSE <<i - 1>>)
         \o Succeeded(script, outcomes, i + 1)

\* C30: after main_generate_images there is one image file per scene that
\* succeeded, no two files have the same sort key, and get_files returns
\* the files in the script order of their scenes, however the folder is
\* listed.
C30_ImagesInScriptOrder ==
    ig_out.ran =>
        LET names == DOMAIN ig_out.files
        IN  /\ Cardinality(names) = ig_out.success_count
            /\ \A a, b \in names : a # b => ExtractNumber(a) # ExtractNumber(b)
            /\ \A listing \in [1..Cardinality(names) -> names] :
                  IsInjective(listing) =>
                      LET files == GetFiles(listing, ImageExtensions)
                      IN  [i \in DOMAIN files |-> ig_out.files[files[i]]]
                             = Succeeded(ig_script, ig_outcomes, 1)


\* ------------------------------------------------------------------ C31
\* C31: with at least one image in the folder every audio segment of the
\* narration is a clip of the final timeline, exactly once and in segment
\* order, also when there are fewer images than audio segments.
C31_NarrationKept ==
    "video" \in tm_ran /\ tm_images > 0 =>
        [i \in 1..(Len(tm_timeline) - 2) |-> tm_timeline[i + 1].audio]
            = [i \in 1..Len(tm_durations) |-> i]

\* ------------------------------------------------------------------ C32
\* C32: the saved subtitle cues are on the clock of the assembled video: the
\* cues of narration segment i begin at the start of clip i and finish at
\* the end of clip i of the timeline, and no cue ends after the outro
\* starts, for every number of images and of audio files.
C32_SubtitleClock ==
    {"srt", "video"} \subseteq tm_ran =>
        LET tl == tm_timeline
            cues == tm_srt.cues
            paired == Min(Len(tm_script), Len(tm_durations))
        IN  /\ \A k \in 1..paired :
                  LET first == CuesBefore(tm_script, tm_chunk, k)
                      last == CuesBefore(tm_script, tm_chunk, k + 1)
                  IN  /\ k + 1 < Len(tl)
                      /\ tl[k + 1].kind = "clip"
                      /\ cues[first + 1].start = tl[k + 1].start
                      /\ cues[last].end = tl[k + 1].end
            /\ \A n \in DOMAIN cues : RatLeq(cues[n].end, Last(tl).start)


\* ------------------------------------------------------------------ C35
\* C35: after main_generate_images the image folder holds as many files as
\* cues were generated and downloaded (success_count), each file the image
\* of a different cue: no image is written over the image of another cue.
C35_OneFilePerSuccess ==
    ig_out.ran =>
        /\ Cardinality(DOMAIN ig_out.files) = ig_out.success_count
        /\ {ig_out.files[name] : name \in DOMAIN ig_out.files}
              = Range(Succeeded(ig_script, ig_outcomes, 1))



\* ------------------------------------------------------------------ C33
\* the name merge_audio gives the audio of narration segment i (from 1)
SegmentFile(i) == SegmentPrefix \o Decimal(i - 1) \o DotWav

\* C33: after main_generate_audio has succeeded on a script of N narration
\* texts, also for N > 10, an audio folder that was empty holds exactly the
\* files segment_0.wav .. segment_(N-1).wav, and get_files returns them so
\* that position i is the audio of text i, however the folder lists them:
\* zip(script, audio_clips) times text i with its own audio.
C33_AudioStoreInOrder ==
    /\ na_out.ran =>
          /\ ~na_out.raised
          /\ DOMAIN na_out.files = {SegmentFile(i) : i \in 1..Len(na_script)}
    /\ fl_out.ran =>
          /\ Len(fl_out.files) = Len(na_script)
          /\ \A i \in 1..Len(na_script) :
                /\ fl_out.files[i] = SegmentFile(i)
                /\ na_out.files[fl_out.files[i]] = na_script[i]

C33_Witness ==
    /\ fl_out.ran
    /\ Len(na_script) = 12
    /\ \E p, q \in 1..12 :
          p < q /\ fl_listing[p] = SegmentFile(11) /\ fl_listing[q] = SegmentFile(3)
    /\ fl_out.files[3] = SegmentFile(3)
    /\ fl_out.files[11] = SegmentFile(11)

\* ------------------------------------------------------------------ C34
\* C34: in every step that carries a job from CLEANING to SCRIPTING the
\* image folder and the audio folder are left without any entry, so nothing
\* an earlier job wrote there can be listed for the job's video or subtitles.
C34_ScratchEmptyAfterCleaning ==
    [][\A j \in Jobs :
          pc[j] = "CLEANING" /\ pc'[j] = "SCRIPTING" =>
              images_dir' = EmptyDir /\ audio_dir' = EmptyDir]_vars

====
